---- MODULE Spec2Model ----
(***************************************************************************)
(* Save-slot persistence core of src/rust/src/api/simple.rs: the metadata  *)
(* catalog (metadata.db), the per-slot data files, the SaveManager and the *)
(* process-wide SAVE_MANAGER registry behind its Mutex, and the            *)
(* APP_DOCUMENTS_DIR registry behind its RwLock.                           *)
(*                                                                         *)
(* Every public operation is a sequence of steps of the calling thread;    *)
(* each fallible storage call may fail (an I/O failure of the file system  *)
(* or of SQLite), and the process may be torn down between any two steps.  *)
(***************************************************************************)
EXTENDS Integers, Sequences, FiniteSets, TLC

\* ------------------------------------------------------------------------
\* Bounds and input domains
\* ------------------------------------------------------------------------

\* The threads of the host calling the public operations.
Threads == {"t1", "t2"}

\* The values Uuid::new_v4() can return.
Uuids == {"a", "b"}

\* The display names the host passes to create_new_slot.
DisplayNames == {"Run 1", "Run 2"}

\* The wall clock in whole seconds (the resolution of "%Y-%m-%d %H:%M:%S"
\* and of CURRENT_TIMESTAMP) runs from 0 to MaxClock.
MaxClock == 1

\* The PlayerData values the host passes to save_player_data: one with an
\* empty inventory, one with an ordered inventory that holds a duplicate.
PlayerDataValues ==
    { [health |-> 100, experience |-> 0,   inventory |-> <<>>],
      [health |-> 80,  experience |-> 120,
       inventory |-> <<"sword", "potion", "potion">>] }

\* The base path the host supplies to init_system.
BasePath == "/tmp/app"

\* ------------------------------------------------------------------------
\* Option, paths, errors and results
\* ------------------------------------------------------------------------

None == <<>>
Some(x) == <<x>>

APP_NAME == "my_app"
SAVES_SUBDIRECTORY == "saves"
METADATA_DB_FILE == "metadata.db"

\* base_path.join(APP_NAME).join(SAVES_SUBDIRECTORY)
SavesDir(base_path) == <<base_path, APP_NAME, SAVES_SUBDIRECTORY>>

\* saves_dir.join(METADATA_DB_FILE)
MetadataDbPath(saves_dir) == Append(saves_dir, METADATA_DB_FILE)

\* saves_dir.join(format!("{slot_id}.db"))
SlotFilePath(saves_dir, slot_id) == saves_dir \o <<slot_id, ".db">>

SlotPaths == { SlotFilePath(SavesDir(BasePath), id) : id \in Uuids }

\* The details rusqlite / std::io / rusqlite_migration report.
IoFailure == "storage failure"
UniqueConstraintFailed == "UNIQUE constraint failed"

\* enum SaveManagerError
Io(detail) == [kind |-> "Io", payload |-> detail]
Database(detail) == [kind |-> "Database", payload |-> detail]
SlotNotFound(id) == [kind |-> "SlotNotFound", payload |-> id]
NoActiveSlot == [kind |-> "NoActiveSlot", payload |-> ""]
Migration(detail) == [kind |-> "Migration", payload |-> detail]

\* impl fmt::Display for SaveManagerError: the text that crosses the boundary.
DisplayAsDatabase(err) == <<"database error: ", err.payload>>
Display(err) ==
    CASE err.kind = "Io" -> <<"I/O error: ", err.payload>>
      [] err.kind = "Database" -> <<"database error: ", err.payload>>
      [] err.kind = "SlotNotFound" ->
             <<"save slot with id '", err.payload, "' does not exist">>
      [] err.kind = "NoActiveSlot" -> <<"no save slot is currently loaded">>
      [] err.kind = "Migration" -> <<"migration error: ", err.payload>>

LockPoisonedMessage == <<"SaveManager lock poisoned">>
NotInitializedAsPoisoned == <<"SaveManager lock poisoned">>
NotInitializedMessage == <<"SaveManager has not been initialized">>
InitFailedMessage(err) == <<"init_system failed: ">> \o Display(err)

\* Result<T, String> as the public operations return it.
Ok(v) == [ok |-> TRUE, val |-> v, err |-> <<>>]
Err(text) == [ok |-> FALSE, val |-> <<>>, err |-> text]

\* ------------------------------------------------------------------------
\* The catalog (metadata.db)
\* ------------------------------------------------------------------------

\* struct SaveSlotMetadata / one row of save_slots
SaveSlotMetadata(id, name, last_played, file_path) ==
    [id |-> id, name |-> name, last_played |-> last_played, file_path |-> file_path]

NoMetadataDb == [table |-> FALSE, rows |-> <<>>]

\* CREATE TABLE IF NOT EXISTS save_slots (...)
CreateTableDropping(db) == [table |-> TRUE, rows |-> <<>>]
CreateTableIfNotExists(db) ==
    IF db.table THEN db ELSE [table |-> TRUE, rows |-> <<>>]

RowIds(rows) == { rows[i].id : i \in 1..Len(rows) }

\* INSERT INTO save_slots: id is the PRIMARY KEY, a duplicate id is refused.
InsertSlotReplacing(rows, row) == [ok |-> TRUE, rows |-> Append(rows, row)]
InsertSlot(rows, row) ==
    IF row.id \in RowIds(rows)
    THEN [ok |-> FALSE, rows |-> rows]
    ELSE [ok |-> TRUE, rows |-> Append(rows, row)]

InsertAt(s, k, e) == SubSeq(s, 1, k - 1) \o <<e>> \o SubSeq(s, k, Len(s))

\* ORDER BY last_played DESC: each row is placed after every row played
\* later and before every row played earlier; SQL leaves the order of rows
\* with equal last_played open, so every such order is a possible result.
PlaceAscending(sorted, row) ==
    { InsertAt(sorted, k, row) :
        k \in { k \in 1..(Len(sorted) + 1) :
                  /\ \A j \in 1..(k - 1) : sorted[j].last_played <= row.last_played
                  /\ \A j \in k..Len(sorted) : sorted[j].last_played >= row.last_played } }
PlaceDescending(sorted, row) ==
    { InsertAt(sorted, k, row) :
        k \in { k \in 1..(Len(sorted) + 1) :
                  /\ \A j \in 1..(k - 1) : sorted[j].last_played >= row.last_played
                  /\ \A j \in k..Len(sorted) : sorted[j].last_played <= row.last_played } }

RECURSIVE OrderByLastPlayedDesc(_)
OrderByLastPlayedDesc(rows) ==
    IF rows = <<>>
    THEN { <<>> }
    ELSE UNION { PlaceDescending(sorted, Head(rows)) :
                   sorted \in OrderByLastPlayedDesc(Tail(rows)) }

\* SELECT file_path FROM save_slots WHERE id = ?1
FilePathDerived(rows, slot_id) == Some(SlotFilePath(SavesDir(BasePath), slot_id))
FilePathOf(rows, slot_id) ==
    LET hits == { i \in 1..Len(rows) : rows[i].id = slot_id }
    IN  IF hits = {} THEN None ELSE Some(rows[CHOOSE i \in hits : TRUE].file_path)

\* UPDATE save_slots SET last_played = CURRENT_TIMESTAMP WHERE id = ?1
UpdateLastPlayed(rows, slot_id, timestamp) ==
    [ i \in 1..Len(rows) |->
        IF rows[i].id = slot_id
        THEN [rows[i] EXCEPT !.last_played = timestamp]
        ELSE rows[i] ]

\* ------------------------------------------------------------------------
\* The slot data files
\* ------------------------------------------------------------------------

\* A slot data file: absent, or a database at schema version user_version
\* with the singleton player_stats row (none, or <<health, experience>>)
\* and the inventory rows.
NoFile == [exists |-> FALSE, user_version |-> 0, player_stats |-> None, inventory |-> {}]
EmptyFile == [exists |-> TRUE, user_version |-> 0, player_stats |-> None, inventory |-> {}]

\* Connection::open(path) + PRAGMA journal_mode = WAL: creates the file
\* when it does not exist.
OpenExisting(file) == file
OpenConfigured(file) == IF file.exists THEN file ELSE EmptyFile

\* SLOT_DB_MIGRATIONS.to_latest: the one migration creates both tables and
\* is recorded in user_version, so it runs once.
ToLatestSkipped(file) == file
ToLatest(file) ==
    IF file.user_version >= 1 THEN file ELSE [file EXCEPT !.user_version = 1]

\* INSERT INTO player_stats ... ON CONFLICT(id) DO UPDATE SET ...
UpsertStats(content, health, experience) ==
    [content EXCEPT !.player_stats = Some(<<health, experience>>)]

\* DELETE FROM inventory
KeepInventory(content) == content
DeleteInventory(content) == [content EXCEPT !.inventory = {}]

\* INSERT INTO inventory (position, item): position is the PRIMARY KEY.
InsertItem(content, position, item) ==
    IF \E r \in content.inventory : r.position = position
    THEN [ok |-> FALSE, content |-> content]
    ELSE [ok |-> TRUE,
          content |-> [content EXCEPT !.inventory =
                          @ \cup { [position |-> position, item |-> item] }]]

\* What a fresh read of a slot file yields for the PlayerData d.
Projection(d) ==
    [exists |-> TRUE, user_version |-> 1,
     player_stats |-> Some(<<d.health, d.experience>>),
     inventory |-> { [position |-> i - 1, item |-> d.inventory[i]] :
                       i \in 1..Len(d.inventory) }]

\* ------------------------------------------------------------------------
\* State
\* ------------------------------------------------------------------------

VARIABLES
    now,              \* the wall clock, in seconds
    saves_dir_exists, \* the directory base_path/my_app/saves exists
    metadata_db,      \* the catalog file: its table and rows (in rowid order)
    slot_files,       \* the committed content of every slot data file
    lock,             \* SAVE_MANAGER's Mutex: None, or Some(holder)
    manager,          \* SAVE_MANAGER's content: None, or Some(SaveManager)
    pc,               \* where each thread is in its public operation
    call,             \* the operation each thread is in, and its argument
    loc,              \* each thread's local variables
    result,           \* what each thread's operation returns, once it is known
    created,          \* history: id and name of every create_slot that succeeded
    saved,            \* history: the PlayerData last committed to each slot file
    loaded,           \* history: the id of the slot the manager has active
    poisoned,         \* SAVE_MANAGER's Mutex is poisoned
    app_documents_dir \* APP_DOCUMENTS_DIR: its RwLock and its content

vars == <<now, saves_dir_exists, metadata_db, slot_files, lock, manager,
          pc, call, loc, result, created, saved, loaded, poisoned,
          app_documents_dir>>

\* struct SaveManager as SaveManager::initialize builds it.
NewSaveManager(base_path) ==
    [saves_dir |-> SavesDir(base_path),
     metadata_db_path |-> MetadataDbPath(SavesDir(base_path)),
     active_connection |-> None]

NoCall == [op |-> "none", arg |-> None]

\* APP_DOCUMENTS_DIR as the process starts: RwLock::new(None), with no
\* writer, no reader, not poisoned.
NoDocumentsDir == [value |-> None, writer |-> None, readers |-> {}, poisoned |-> FALSE]

\* APP_DOCUMENTS_DIR once thread t has dropped the guard it may hold.
ReleasedBy(dir, t) ==
    [dir EXCEPT !.writer = IF @ = Some(t) THEN None ELSE @, !.readers = @ \ {t}]

\* SAVE_MANAGER's Mutex l once thread t has dropped the guard it may hold.
LeakGuard(l, t) == l
DropGuard(l, t) == IF l = Some(t) THEN None ELSE l

\* Mutex::lock returns when no thread holds the guard l.
Barging(l) == TRUE
Unlocked(l) == l = None

\* A thread's locals: the path load_slot has looked up, the slot connection
\* it has opened and not yet installed, the transaction of save_player_data
\* (its working content) and the position of its insert loop; behind
\* records (for load_slot) that, when the slot was looked up, another slot
\* had been played later than it, and had_active that a slot was active when
\* load_slot was entered or when init_system replaced the manager.
NoLocals == [slot_path |-> None, slot_connection |-> None, transaction |-> None,
             position |-> 0, behind |-> FALSE, had_active |-> FALSE]

Init ==
    /\ now = 0
    /\ saves_dir_exists = FALSE
    /\ metadata_db = NoMetadataDb
    /\ slot_files = [p \in SlotPaths |-> NoFile]
    /\ lock = None
    /\ manager = None
    /\ pc = [t \in Threads |-> "idle"]
    /\ call = [t \in Threads |-> NoCall]
    /\ loc = [t \in Threads |-> NoLocals]
    /\ result = [t \in Threads |-> None]
    /\ created = <<>>
    /\ saved = [p \in SlotPaths |-> None]
    /\ loaded = None
    /\ poisoned = FALSE
    /\ app_documents_dir = NoDocumentsDir

\* The operation of thread t ends with result r: its locals are dropped
\* (an open slot connection is closed, an open transaction rolled back).
Finish(t, r) ==
    /\ pc' = [pc EXCEPT ![t] = "ret"]
    /\ loc' = [loc EXCEPT ![t] = [NoLocals EXCEPT !.behind = loc[t].behind,
                                                  !.had_active = loc[t].had_active]]
    /\ result' = [result EXCEPT ![t] = Some(r)]

Goto(t, label) == pc' = [pc EXCEPT ![t] = label]

\* ------------------------------------------------------------------------
\* init_system
\* ------------------------------------------------------------------------

InitializeClearing(t) ==
    /\ pc[t] = "idle"
    /\ call' = [call EXCEPT ![t] = [op |-> "init_system", arg |-> Some(BasePath)]]
    /\ \E outcome \in {"io", "database", "ok"} :
         CASE outcome = "io" ->
                /\ Finish(t, Err(InitFailedMessage(Io(IoFailure))))
                /\ manager' = None
                /\ loaded' = None
                /\ UNCHANGED <<saves_dir_exists, metadata_db>>
           [] outcome = "database" ->
                /\ saves_dir_exists' = TRUE
                /\ Finish(t, Err(InitFailedMessage(Database(IoFailure))))
                /\ manager' = None
                /\ loaded' = None
                /\ UNCHANGED metadata_db
           [] outcome = "ok" ->
                /\ saves_dir_exists' = TRUE
                /\ metadata_db' = CreateTableIfNotExists(metadata_db)
                /\ Goto(t, "init_lock")
                /\ UNCHANGED <<loc, result, manager, loaded>>
    /\ UNCHANGED <<now, slot_files, lock, created, saved, poisoned,
                   app_documents_dir>>

\* SaveManager::initialize: fs::create_dir_all(&saves_dir)?, then
\* initialize_metadata_db(&metadata_db_path)?; it runs before init_system
\* takes the guard.
Initialize(t) ==
    /\ pc[t] = "idle"
    /\ call' = [call EXCEPT ![t] = [op |-> "init_system", arg |-> Some(BasePath)]]
    /\ \E outcome \in {"io", "database", "ok"} :
         CASE outcome = "io" ->
                /\ Finish(t, Err(InitFailedMessage(Io(IoFailure))))
                /\ UNCHANGED <<saves_dir_exists, metadata_db>>
           [] outcome = "database" ->
                /\ saves_dir_exists' = TRUE
                /\ Finish(t, Err(InitFailedMessage(Database(IoFailure))))
                /\ UNCHANGED metadata_db
           [] outcome = "ok" ->
                /\ saves_dir_exists' = TRUE
                /\ metadata_db' = CreateTableIfNotExists(metadata_db)
                /\ Goto(t, "init_lock")
                /\ UNCHANGED <<loc, result>>
    /\ UNCHANGED <<now, slot_files, lock, manager, created, saved, loaded>>
    /\ UNCHANGED <<poisoned, app_documents_dir>>

\* init_system: SAVE_MANAGER.lock()
InitLock(t) ==
    /\ pc[t] = "init_lock"
    /\ Unlocked(lock)
    /\ IF poisoned
       THEN /\ Finish(t, Err(LockPoisonedMessage))
            /\ UNCHANGED lock
       ELSE /\ lock' = Some(t)
            /\ Goto(t, "init_store")
            /\ UNCHANGED <<loc, result>>
    /\ UNCHANGED <<now, saves_dir_exists, metadata_db, slot_files, manager,
                   call, created, saved, loaded, poisoned, app_documents_dir>>

\* init_system: *storage = Some(manager); the previous manager, if any, is
\* dropped and with it its active connection.
InitStoreOnce(t) ==
    /\ pc[t] = "init_store"
    /\ manager' = IF manager = None THEN Some(NewSaveManager(call[t].arg[1]))
                                    ELSE manager
    /\ loaded' = IF manager = None THEN None ELSE loaded
    /\ pc' = [pc EXCEPT ![t] = "ret"]
    /\ loc' = [loc EXCEPT ![t].had_active =
                  manager # None /\ manager[1].active_connection # None]
    /\ result' = [result EXCEPT ![t] = Some(Ok(<<>>))]
    /\ UNCHANGED <<now, saves_dir_exists, metadata_db, slot_files, lock, call,
                   created, saved>>
    /\ UNCHANGED <<poisoned, app_documents_dir>>

InitStore(t) ==
    /\ pc[t] = "init_store"
    /\ manager' = Some(NewSaveManager(call[t].arg[1]))
    /\ loaded' = None
    /\ pc' = [pc EXCEPT ![t] = "ret"]
    /\ loc' = [loc EXCEPT ![t].had_active =
                  manager # None /\ manager[1].active_connection # None]
    /\ result' = [result EXCEPT ![t] = Some(Ok(<<>>))]
    /\ UNCHANGED <<now, saves_dir_exists, metadata_db, slot_files, lock, call,
                   created, saved>>
    /\ UNCHANGED <<poisoned, app_documents_dir>>

\* ------------------------------------------------------------------------
\* with_save_manager / with_save_manager_mut
\* ------------------------------------------------------------------------

FirstStep(op) ==
    CASE op = "create_new_slot" -> "create_slot"
      [] op = "get_all_slots" -> "all_slots"
      [] op = "load_slot" -> "load_close"
      [] op = "save_player_data" -> "save_begin"

\* Thread t, which has called the operation of c or is parked in
\* SAVE_MANAGER.lock() for it, gets the lock: poisoned, the call fails with
\* the "lock poisoned" message (the guard inside the PoisonError is dropped
\* at once); otherwise it holds the guard and finds the manager, or fails
\* with the "not initialized" message.
Acquire(t, c) ==
    /\ pc[t] \in {"idle", "parked"}
    /\ Unlocked(lock)
    /\ call' = [call EXCEPT ![t] = c]
    /\ IF poisoned
       THEN /\ Finish(t, Err(LockPoisonedMessage))
            /\ UNCHANGED lock
       ELSE /\ lock' = Some(t)
            /\ IF manager = None
               THEN Finish(t, Err(NotInitializedMessage))
               ELSE /\ Goto(t, FirstStep(c.op))
                    /\ UNCHANGED <<loc, result>>
    /\ UNCHANGED <<now, saves_dir_exists, metadata_db, slot_files, manager,
                   created, saved, loaded, poisoned, app_documents_dir>>

\* create_new_slot and get_all_slots enter through with_save_manager.
WithSaveManager(t) ==
    \/ \E name \in DisplayNames :
         Acquire(t, [op |-> "create_new_slot", arg |-> Some(name)])
    \/ Acquire(t, [op |-> "get_all_slots", arg |-> None])

\* load_slot and save_player_data enter through with_save_manager_mut.
WithSaveManagerMut(t) ==
    \/ \E id \in Uuids :
         Acquire(t, [op |-> "load_slot", arg |-> Some(id)])
    \/ \E d \in PlayerDataValues :
         Acquire(t, [op |-> "save_player_data", arg |-> Some(d)])

\* The public operation returns: the guard, if held, is released.
Return(t) ==
    /\ pc[t] = "ret"
    /\ lock' = DropGuard(lock, t)
    /\ pc' = [pc EXCEPT ![t] = "idle"]
    /\ call' = [call EXCEPT ![t] = NoCall]
    /\ result' = [result EXCEPT ![t] = None]
    /\ loc' = [loc EXCEPT ![t] = NoLocals]
    /\ app_documents_dir' = ReleasedBy(app_documents_dir, t)
    /\ UNCHANGED <<now, saves_dir_exists, metadata_db, slot_files, manager,
                   created, saved, loaded, poisoned>>

\* ------------------------------------------------------------------------
\* SaveManager::create_slot and SaveManager::all_slots
\* ------------------------------------------------------------------------

CreateSlot(t) ==
    /\ pc[t] = "create_slot"
    /\ \E slot_id \in Uuids, fail \in BOOLEAN :
         LET m == manager[1]
             display_name == call[t].arg[1]
             row == SaveSlotMetadata(slot_id, display_name, now,
                                     SlotFilePath(m.saves_dir, slot_id))
             ins == InsertSlot(metadata_db.rows, row)
         IN  IF fail
             THEN /\ Finish(t, Err(Display(Database(IoFailure))))
                  /\ UNCHANGED <<metadata_db, created>>
             ELSE IF ~ins.ok
             THEN /\ Finish(t, Err(Display(Database(UniqueConstraintFailed))))
                  /\ UNCHANGED <<metadata_db, created>>
             ELSE /\ metadata_db' = [metadata_db EXCEPT !.rows = ins.rows]
                  /\ created' = Append(created, [id |-> row.id, name |-> display_name])
                  /\ Finish(t, Ok(<<row>>))
    /\ UNCHANGED <<now, saves_dir_exists, slot_files, lock, manager, call, saved,
                   loaded>>
    /\ UNCHANGED <<poisoned, app_documents_dir>>

AllSlots(t) ==
    /\ pc[t] = "all_slots"
    /\ \E fail \in BOOLEAN :
         IF fail
         THEN Finish(t, Err(Display(Database(IoFailure))))
         ELSE \E slots \in OrderByLastPlayedDesc(metadata_db.rows) :
                 Finish(t, Ok(slots))
    /\ UNCHANGED <<now, saves_dir_exists, metadata_db, slot_files, lock, manager,
                   call, created, saved, loaded>>
    /\ UNCHANGED <<poisoned, app_documents_dir>>

\* ------------------------------------------------------------------------
\* SaveManager::load_slot
\* ------------------------------------------------------------------------

\* A Connection to the database file at path.
Connection(path) == [path |-> path]

\* SaveManager::close_active_connection
KeepActiveConnection(m) == m
CloseActiveConnection(m) == [m EXCEPT !.active_connection = None]

\* self.close_active_connection()
LoadClose(t) ==
    /\ pc[t] = "load_close"
    /\ manager' = Some(CloseActiveConnection(manager[1]))
    /\ loaded' = IF manager'[1].active_connection = None THEN None ELSE loaded
    /\ loc' = [loc EXCEPT ![t].had_active = manager[1].active_connection # None]
    /\ Goto(t, "load_lookup")
    /\ UNCHANGED <<now, saves_dir_exists, metadata_db, slot_files, lock, call,
                   result, created, saved>>
    /\ UNCHANGED <<poisoned, app_documents_dir>>

\* Another row of the catalog has a later last_played than slot_id's.
PlayedBefore(rows, slot_id) ==
    \E i, j \in 1..Len(rows) :
        /\ rows[i].id = slot_id
        /\ rows[j].last_played > rows[i].last_played

\* self.metadata_connection()? and the lookup of file_path by id
LoadLookup(t) ==
    /\ pc[t] = "load_lookup"
    /\ \E fail \in BOOLEAN :
         LET slot_id == call[t].arg[1]
             found == FilePathOf(metadata_db.rows, slot_id)
         IN  IF fail
             THEN Finish(t, Err(Display(Database(IoFailure))))
             ELSE IF found = None
             THEN Finish(t, Err(Display(SlotNotFound(slot_id))))
             ELSE /\ loc' = [loc EXCEPT ![t].slot_path = found,
                                        ![t].behind =
                                            PlayedBefore(metadata_db.rows, slot_id)]
                  /\ Goto(t, "load_open")
                  /\ UNCHANGED result
    /\ UNCHANGED <<now, saves_dir_exists, metadata_db, slot_files, lock, manager,
                   call, created, saved, loaded>>
    /\ UNCHANGED <<poisoned, app_documents_dir>>

\* open_configured_connection(&slot_path)?
LoadOpen(t) ==
    /\ pc[t] = "load_open"
    /\ \E fail \in BOOLEAN :
         LET path == loc[t].slot_path[1]
         IN  IF fail
             THEN /\ Finish(t, Err(Display(Database(IoFailure))))
                  /\ UNCHANGED slot_files
             ELSE /\ slot_files' =
                        [slot_files EXCEPT ![path] = OpenConfigured(slot_files[path])]
                  /\ loc' = [loc EXCEPT ![t].slot_connection = Some(Connection(path))]
                  /\ Goto(t, "load_migrate")
                  /\ UNCHANGED result
    /\ UNCHANGED <<now, saves_dir_exists, metadata_db, lock, manager, call,
                   created, saved, loaded>>
    /\ UNCHANGED <<poisoned, app_documents_dir>>

\* SLOT_DB_MIGRATIONS.to_latest(&mut slot_connection)?
LoadMigrate(t) ==
    /\ pc[t] = "load_migrate"
    /\ \E fail \in BOOLEAN :
         LET path == loc[t].slot_connection[1].path
         IN  IF fail
             THEN /\ Finish(t, Err(Display(Migration(IoFailure))))
                  /\ UNCHANGED slot_files
             ELSE /\ slot_files' =
                        [slot_files EXCEPT ![path] = ToLatest(slot_files[path])]
                  /\ Goto(t, "load_update")
                  /\ UNCHANGED <<loc, result>>
    /\ UNCHANGED <<now, saves_dir_exists, metadata_db, lock, manager, call,
                   created, saved, loaded>>
    /\ UNCHANGED <<poisoned, app_documents_dir>>

\* UPDATE save_slots SET last_played = CURRENT_TIMESTAMP WHERE id = ?1
LoadUpdate(t) ==
    /\ pc[t] = "load_update"
    /\ \E fail \in BOOLEAN :
         IF fail
         THEN /\ Finish(t, Err(Display(Database(IoFailure))))
              /\ UNCHANGED metadata_db
         ELSE /\ metadata_db' =
                    [metadata_db EXCEPT !.rows =
                        UpdateLastPlayed(@, call[t].arg[1], now)]
              /\ Goto(t, "load_install")
              /\ UNCHANGED <<loc, result>>
    /\ UNCHANGED <<now, saves_dir_exists, slot_files, lock, manager, call,
                   created, saved, loaded>>
    /\ UNCHANGED <<poisoned, app_documents_dir>>

\* self.active_connection = Some(slot_connection)
InstallNothing(m, slot_connection) == m
Install(m, slot_connection) == [m EXCEPT !.active_connection = Some(slot_connection)]

\* self.active_connection = Some(slot_connection); Ok(())
LoadInstall(t) ==
    /\ pc[t] = "load_install"
    /\ manager' = Some(Install(manager[1], loc[t].slot_connection[1]))
    /\ loaded' = call[t].arg
    /\ Finish(t, Ok(<<>>))
    /\ UNCHANGED <<now, saves_dir_exists, metadata_db, slot_files, lock, call,
                   created, saved>>
    /\ UNCHANGED <<poisoned, app_documents_dir>>

\* ------------------------------------------------------------------------
\* SaveManager::save_player_data
\* ------------------------------------------------------------------------

\* What the slot file holds while a transaction is open on it: the
\* statements of the transaction stay in its working copy.
Autocommit(committed, working) == working
Uncommitted(committed, working) == committed

\* The statement of the open transaction of thread t has produced the
\* working content w.
Execute(t, w) ==
    LET path == manager[1].active_connection[1].path
    IN  slot_files' = [slot_files EXCEPT ![path] = Uncommitted(slot_files[path], w)]

\* .ok_or(SaveManagerError::NoActiveSlot)? and connection.transaction()?
SaveBegin(t) ==
    /\ pc[t] = "save_begin"
    /\ IF manager[1].active_connection = None
       THEN Finish(t, Err(Display(NoActiveSlot)))
       ELSE \E fail \in BOOLEAN :
              IF fail
              THEN Finish(t, Err(Display(Database(IoFailure))))
              ELSE /\ loc' = [loc EXCEPT ![t].transaction =
                                 Some(slot_files[manager[1].active_connection[1].path])]
                   /\ Goto(t, "save_upsert")
                   /\ UNCHANGED result
    /\ UNCHANGED <<now, saves_dir_exists, metadata_db, slot_files, lock, manager,
                   call, created, saved, loaded>>
    /\ UNCHANGED <<poisoned, app_documents_dir>>

\* the upsert of the player_stats row
SaveUpsert(t) ==
    /\ pc[t] = "save_upsert"
    /\ \E fail \in BOOLEAN :
         LET d == call[t].arg[1]
             w == UpsertStats(loc[t].transaction[1], d.health, d.experience)
         IN  IF fail
             THEN /\ Finish(t, Err(Display(Database(IoFailure))))
                  /\ UNCHANGED slot_files
             ELSE /\ loc' = [loc EXCEPT ![t].transaction = Some(w)]
                  /\ Execute(t, w)
                  /\ Goto(t, "save_delete")
                  /\ UNCHANGED result
    /\ UNCHANGED <<now, saves_dir_exists, metadata_db, lock, manager, call,
                   created, saved, loaded>>
    /\ UNCHANGED <<poisoned, app_documents_dir>>

\* DELETE FROM inventory; the loop starts at position 0
SaveDelete(t) ==
    /\ pc[t] = "save_delete"
    /\ \E fail \in BOOLEAN :
         LET w == DeleteInventory(loc[t].transaction[1])
         IN  IF fail
             THEN /\ Finish(t, Err(Display(Database(IoFailure))))
                  /\ UNCHANGED slot_files
             ELSE /\ loc' = [loc EXCEPT ![t].transaction = Some(w), ![t].position = 0]
                  /\ Execute(t, w)
                  /\ Goto(t, "save_insert")
                  /\ UNCHANGED result
    /\ UNCHANGED <<now, saves_dir_exists, metadata_db, lock, manager, call,
                   created, saved, loaded>>
    /\ UNCHANGED <<poisoned, app_documents_dir>>

\* one turn of the loop over data.inventory.iter().enumerate()
SaveInsert(t) ==
    /\ pc[t] = "save_insert"
    /\ loc[t].position < Len(call[t].arg[1].inventory)
    /\ \E fail \in BOOLEAN :
         LET position == loc[t].position
             item == call[t].arg[1].inventory[position + 1]
             ins == InsertItem(loc[t].transaction[1], position, item)
         IN  IF fail
             THEN /\ Finish(t, Err(Display(Database(IoFailure))))
                  /\ UNCHANGED slot_files
             ELSE IF ~ins.ok
             THEN /\ Finish(t, Err(Display(Database(UniqueConstraintFailed))))
                  /\ UNCHANGED slot_files
             ELSE /\ loc' = [loc EXCEPT ![t].transaction = Some(ins.content),
                                        ![t].position = position + 1]
                  /\ Execute(t, ins.content)
                  /\ UNCHANGED <<pc, result>>
    /\ UNCHANGED <<now, saves_dir_exists, metadata_db, lock, manager, call,
                   created, saved, loaded>>
    /\ UNCHANGED <<poisoned, app_documents_dir>>

\* transaction.commit(): the working content of the transaction becomes
\* the content of the file the connection is open on.
CommitToAll(files, path, content) == [p \in DOMAIN files |-> content]
Commit(files, path, content) == [files EXCEPT ![path] = content]

\* transaction.commit()?; Ok(())
SaveCommit(t) ==
    /\ pc[t] = "save_insert"
    /\ loc[t].position = Len(call[t].arg[1].inventory)
    /\ \E fail \in BOOLEAN :
         LET path == manager[1].active_connection[1].path
         IN  IF fail
             THEN /\ Finish(t, Err(Display(Database(IoFailure))))
                  /\ UNCHANGED <<slot_files, saved>>
             ELSE /\ slot_files' = Commit(slot_files, path, loc[t].transaction[1])
                  /\ saved' = [saved EXCEPT ![path] = Some(call[t].arg[1])]
                  /\ Finish(t, Ok(<<>>))
    /\ UNCHANGED <<now, saves_dir_exists, metadata_db, lock, manager, call, created,
                   loaded>>
    /\ UNCHANGED <<poisoned, app_documents_dir>>

\* ------------------------------------------------------------------------
\* The environment
\* ------------------------------------------------------------------------

\* A second passes on the wall clock.
Tick ==
    /\ now < MaxClock
    /\ now' = now + 1
    /\ UNCHANGED <<saves_dir_exists, metadata_db, slot_files, lock, manager, pc,
                   call, loc, result, created, saved, loaded>>
    /\ UNCHANGED <<poisoned, app_documents_dir>>

\* The process is torn down and started again: the statics are fresh, every
\* thread's operation is gone, open transactions are lost; the files stay.
Restart ==
    /\ \/ manager # None
       \/ \E t \in Threads : pc[t] # "idle"
    /\ lock' = None
    /\ manager' = None
    /\ pc' = [t \in Threads |-> "idle"]
    /\ call' = [t \in Threads |-> NoCall]
    /\ loc' = [t \in Threads |-> NoLocals]
    /\ result' = [t \in Threads |-> None]
    /\ loaded' = None
    /\ poisoned' = FALSE
    /\ app_documents_dir' = NoDocumentsDir
    /\ UNCHANGED <<now, saves_dir_exists, metadata_db, slot_files, created, saved>>

Next ==
    \/ \E t \in Threads :
         \/ Initialize(t)
         \/ InitLock(t)
         \/ InitStore(t)
         \/ WithSaveManager(t)
         \/ WithSaveManagerMut(t)
         \/ CreateSlot(t)
         \/ AllSlots(t)
         \/ LoadClose(t)
         \/ LoadLookup(t)
         \/ LoadOpen(t)
         \/ LoadMigrate(t)
         \/ LoadUpdate(t)
         \/ LoadInstall(t)
         \/ SaveBegin(t)
         \/ SaveUpsert(t)
         \/ SaveDelete(t)
         \/ SaveInsert(t)
         \/ SaveCommit(t)
         \/ Return(t)
    \/ Tick
    \/ Restart

Spec == Init /\ [][Next]_vars

\* ------------------------------------------------------------------------
\* The two registries under contention and abnormal termination
\* ------------------------------------------------------------------------

\* The directories set_application_documents_directory is called with.
DocumentsDirs == {"/data/documents", "/sdcard/documents", "/home/user/Documents"}

\* The steps of the closures that run under SAVE_MANAGER's guard.
ClosureSteps ==
    {"create_slot", "all_slots", "load_close", "load_lookup", "load_open",
     "load_migrate", "load_update", "load_install", "save_begin", "save_upsert",
     "save_delete", "save_insert"}

\* Where a thread can be inside init_system or inside an operation that
\* goes through with_save_manager or with_save_manager_mut.
SaveManagerSteps == ClosureSteps \cup {"init_lock", "init_store", "parked"}

\* Thread t has called an operation that goes through with_save_manager or
\* with_save_manager_mut while another thread holds the guard: it is parked
\* in SAVE_MANAGER.lock() (its closure has not run; Acquire draws it).
Park(t) ==
    /\ pc[t] = "idle"
    /\ ~Unlocked(lock)
    /\ Goto(t, "parked")
    /\ UNCHANGED <<now, saves_dir_exists, metadata_db, slot_files, lock, manager,
                   call, loc, result, created, saved, loaded, poisoned,
                   app_documents_dir>>

\* The parked thread t gets the lock.
Unpark(t) ==
    /\ pc[t] = "parked"
    /\ WithSaveManager(t) \/ WithSaveManagerMut(t)

\* The closure of thread t panics while it holds SAVE_MANAGER's guard: the
\* stack unwinds, its locals are dropped (an open transaction is rolled
\* back, an open slot connection closed), and the guard, dropped while
\* panicking, poisons the Mutex.
PanicInClosure(t) ==
    /\ lock = Some(t)
    /\ pc[t] \in ClosureSteps
    /\ poisoned' = TRUE
    /\ lock' = None
    /\ pc' = [pc EXCEPT ![t] = "panicked"]
    /\ loc' = [loc EXCEPT ![t] = NoLocals]
    /\ UNCHANGED <<now, saves_dir_exists, metadata_db, slot_files, manager, call,
                   result, created, saved, loaded, app_documents_dir>>

\* set_application_documents_directory: APP_DOCUMENTS_DIR.write().expect(..),
\* which waits until there is no writer and no reader and panics when the
\* RwLock is poisoned.
SetApplicationDocumentsDirectory(t) ==
    /\ pc[t] = "idle"
    /\ app_documents_dir.writer = None
    /\ app_documents_dir.readers = {}
    /\ \E dir \in DocumentsDirs :
         call' = [call EXCEPT ![t] =
                     [op |-> "set_application_documents_directory",
                      arg |-> Some(dir)]]
    /\ IF app_documents_dir.poisoned
       THEN /\ pc' = [pc EXCEPT ![t] = "panicked"]
            /\ UNCHANGED app_documents_dir
       ELSE /\ app_documents_dir' = [app_documents_dir EXCEPT !.writer = Some(t)]
            /\ Goto(t, "set_dir")
    /\ UNCHANGED <<now, saves_dir_exists, metadata_db, slot_files, lock, manager,
                   loc, result, created, saved, loaded, poisoned>>

\* *storage = Some(PathBuf::from(dir))
StoreDocumentsDir(t) ==
    /\ pc[t] = "set_dir"
    /\ app_documents_dir' = [app_documents_dir EXCEPT !.value = call[t].arg]
    /\ Finish(t, Ok(<<>>))
    /\ UNCHANGED <<now, saves_dir_exists, metadata_db, slot_files, lock, manager,
                   call, created, saved, loaded, poisoned>>

\* The writer of APP_DOCUMENTS_DIR terminates abnormally while it holds the
\* write guard: the guard, dropped while panicking, poisons the RwLock.
PanicInWrite(t) ==
    /\ pc[t] = "set_dir"
    /\ app_documents_dir.writer = Some(t)
    /\ app_documents_dir' = [app_documents_dir EXCEPT !.writer = None,
                                                      !.poisoned = TRUE]
    /\ pc' = [pc EXCEPT ![t] = "panicked"]
    /\ UNCHANGED <<now, saves_dir_exists, metadata_db, slot_files, lock, manager,
                   call, loc, result, created, saved, loaded, poisoned>>

\* debug_application_documents_directory: APP_DOCUMENTS_DIR.read().expect(..),
\* which waits until there is no writer and panics when the RwLock is
\* poisoned.
DebugApplicationDocumentsDirectory(t) ==
    /\ pc[t] = "idle"
    /\ app_documents_dir.writer = None
    /\ call' = [call EXCEPT ![t] =
                   [op |-> "debug_application_documents_directory", arg |-> None]]
    /\ IF app_documents_dir.poisoned
       THEN /\ pc' = [pc EXCEPT ![t] = "panicked"]
            /\ UNCHANGED app_documents_dir
       ELSE /\ app_documents_dir' = [app_documents_dir EXCEPT !.readers = @ \cup {t}]
            /\ Goto(t, "debug_dir")
    /\ UNCHANGED <<now, saves_dir_exists, metadata_db, slot_files, lock, manager,
                   loc, result, created, saved, loaded, poisoned>>

\* storage.as_ref().map(|path| path.to_string_lossy().into_owned())
ReadDocumentsDir(t) ==
    /\ pc[t] = "debug_dir"
    /\ Finish(t, Ok(app_documents_dir.value))
    /\ UNCHANGED <<now, saves_dir_exists, metadata_db, slot_files, lock, manager,
                   call, created, saved, loaded, poisoned, app_documents_dir>>

\* The panic of thread t has unwound out of its public operation, which
\* returns no value.
Unwind(t) ==
    /\ pc[t] = "panicked"
    /\ pc' = [pc EXCEPT ![t] = "idle"]
    /\ call' = [call EXCEPT ![t] = NoCall]
    /\ UNCHANGED <<now, saves_dir_exists, metadata_db, slot_files, lock, manager,
                   loc, result, created, saved, loaded, poisoned,
                   app_documents_dir>>

\* Under contention the host passes one display name and the PlayerData
\* with the three-item inventory (the lock protocol does not look at them).
Scope ==
    \A t \in Threads :
       /\ call[t].op = "create_new_slot" => call[t].arg = Some("Run 1")
       /\ call[t].op = "save_player_data" => Len(call[t].arg[1].inventory) = 3

ContendedNext ==
    \E t \in Threads :
       \/ Initialize(t) /\ Scope'
       \/ InitLock(t) /\ Scope'
       \/ InitStore(t) /\ Scope'
       \/ WithSaveManager(t) /\ Scope'
       \/ WithSaveManagerMut(t) /\ Scope'
       \/ Park(t) /\ Scope'
       \/ CreateSlot(t) /\ Scope'
       \/ AllSlots(t) /\ Scope'
       \/ LoadClose(t) /\ Scope'
       \/ LoadLookup(t) /\ Scope'
       \/ LoadOpen(t) /\ Scope'
       \/ LoadMigrate(t) /\ Scope'
       \/ LoadUpdate(t) /\ Scope'
       \/ LoadInstall(t) /\ Scope'
       \/ SaveBegin(t) /\ Scope'
       \/ SaveUpsert(t) /\ Scope'
       \/ SaveDelete(t) /\ Scope'
       \/ SaveInsert(t) /\ Scope'
       \/ SaveCommit(t) /\ Scope'
       \/ PanicInClosure(t) /\ Scope'
       \/ Unwind(t) /\ Scope'
       \/ Return(t) /\ Scope'

\* The steps a thread takes on its own once it is inside an operation.
Proceed(t) ==
    \/ InitStore(t)
    \/ CreateSlot(t)
    \/ AllSlots(t)
    \/ LoadClose(t)
    \/ LoadLookup(t)
    \/ LoadOpen(t)
    \/ LoadMigrate(t)
    \/ LoadUpdate(t)
    \/ LoadInstall(t)
    \/ SaveBegin(t)
    \/ SaveUpsert(t)
    \/ SaveDelete(t)
    \/ SaveInsert(t)
    \/ SaveCommit(t)
    \/ Unwind(t)
    \/ Return(t)

\* Every thread inside an operation keeps running, and a thread waiting in
\* SAVE_MANAGER.lock() gets the lock if it is free again and again.
Fairness ==
    \A t \in Threads :
       /\ WF_vars(Proceed(t) /\ Scope')
       /\ SF_vars(InitLock(t))
       /\ SF_vars(Unpark(t))

ContendedSpec == Init /\ [][ContendedNext]_vars /\ Fairness

\* APP_DOCUMENTS_DIR on its own: no operation on it touches SAVE_MANAGER.
DocumentsNext ==
    \E t \in Threads :
       \/ SetApplicationDocumentsDirectory(t)
       \/ StoreDocumentsDir(t)
       \/ PanicInWrite(t)
       \/ DebugApplicationDocumentsDirectory(t)
       \/ ReadDocumentsDir(t)
       \/ Unwind(t)
       \/ Return(t)

DocumentsSpec == Init /\ [][DocumentsNext]_vars

\* ------------------------------------------------------------------------
\* Properties
\* ------------------------------------------------------------------------

\* The public operation op of thread t has its result and has not returned.
Returned(t, op) == pc[t] = "ret" /\ call[t].op = op
Res(t) == result[t][1]

\* C1: the ids returned by successful create_new_slot calls are pairwise
\* distinct; the catalog holds exactly one row per such call, with the id
\* and the display name of that call, whatever other operations ran; and
\* every list get_all_slots returns has exactly these records.
C1_OneRecordPerCreate ==
    /\ \A i, j \in 1..Len(created) : i # j => created[i].id # created[j].id
    /\ Len(metadata_db.rows) = Len(created)
    /\ \A i \in 1..Len(created) :
          /\ metadata_db.rows[i].id = created[i].id
          /\ metadata_db.rows[i].name = created[i].name
    /\ \A t \in Threads :
          Returned(t, "create_new_slot") /\ Res(t).ok =>
             /\ Res(t).val[1].name = call[t].arg[1]
             /\ created[Len(created)] =
                   [id |-> Res(t).val[1].id, name |-> call[t].arg[1]]
    /\ \A t \in Threads :
          Returned(t, "get_all_slots") /\ Res(t).ok =>
             /\ Len(Res(t).val) = Len(created)
             /\ \A i \in 1..Len(created) :
                   \E j \in 1..Len(Res(t).val) :
                      /\ Res(t).val[j].id = created[i].id
                      /\ Res(t).val[j].name = created[i].name

\* C1 witness: get_all_slots returns two records with different names,
\* one of them loaded since (a data file exists for it).
C1_Witness ==
    \E t \in Threads :
       /\ Returned(t, "get_all_slots") /\ Res(t).ok
       /\ Len(Res(t).val) = 2
       /\ Res(t).val[1].name # Res(t).val[2].name
       /\ \E p \in SlotPaths : saved[p] # None

\* C2: on an initialized manager, every list get_all_slots returns is
\* ordered by last_played, latest first; on an empty catalog it returns the
\* empty list (the only error it can return there is a failure of the
\* storage itself).
C2_ListOrdered ==
    \A t \in Threads :
       Returned(t, "get_all_slots") /\ manager # None =>
          /\ Res(t).ok =>
                \A i, j \in 1..Len(Res(t).val) :
                   i < j => Res(t).val[i].last_played >= Res(t).val[j].last_played
          /\ metadata_db.rows = <<>> =>
                \/ Res(t) = Ok(<<>>)
                \/ Res(t) = Err(<<"database error: ", IoFailure>>)

\* C2 witness: a list of two slots played at different times.
C2_Witness ==
    \E t \in Threads :
       /\ Returned(t, "get_all_slots") /\ Res(t).ok
       /\ Len(Res(t).val) = 2
       /\ Res(t).val[1].last_played > Res(t).val[2].last_played

\* C3 (as claimed): when load_slot(X) has succeeded and another slot had
\* been played later than X before it, every list get_all_slots can return
\* next has X first.
C3_LoadedSlotFirst ==
    \A t \in Threads :
       Returned(t, "load_slot") /\ Res(t).ok /\ loc[t].behind =>
          \A slots \in OrderByLastPlayedDesc(metadata_db.rows) :
             slots[1].id = call[t].arg[1]

\* C4: on an initialized manager, load_slot of an id no create_slot
\* returned fails, with the "slot not found" text whenever the catalog could
\* be read (a failure of the storage itself is the only other error), and
\* leaves the manager with no active slot.
C4_LoadUnknownSlot ==
    \A t \in Threads :
       /\ Returned(t, "load_slot")
       /\ manager # None
       /\ \A i \in 1..Len(created) : created[i].id # call[t].arg[1]
       => /\ \/ Res(t) = Err(<<"save slot with id '", call[t].arg[1],
                                "' does not exist">>)
             \/ Res(t) = Err(<<"database error: ", IoFailure>>)
          /\ manager[1].active_connection = None
          /\ loaded = None

\* C4 witness: load_slot of an unknown id has failed with "slot not found"
\* when a slot was active before the call.
C4_Witness ==
    \E t \in Threads :
       /\ Returned(t, "load_slot")
       /\ \A i \in 1..Len(created) : created[i].id # call[t].arg[1]
       /\ Res(t) = Err(Display(SlotNotFound(call[t].arg[1])))
       /\ loc[t].had_active

\* C5: save_player_data on a manager with no active slot fails with the
\* "no active slot" text and writes nothing: catalog, slot files and
\* manager are unchanged.
C5_SaveWithoutActiveSlot ==
    [][ \A t \in Threads :
           SaveBegin(t) /\ manager[1].active_connection = None =>
              /\ pc'[t] = "ret"
              /\ result'[t] = Some(Err(<<"no save slot is currently loaded">>))
              /\ UNCHANGED <<saves_dir_exists, metadata_db, slot_files, manager,
                             saved, loaded>> ]_vars

\* C5 witness: save_player_data has failed with "no active slot" while a
\* slot file holds saved data.
C5_Witness ==
    \E t \in Threads :
       /\ Returned(t, "save_player_data")
       /\ Res(t) = Err(Display(NoActiveSlot))
       /\ \E p \in SlotPaths : saved[p] # None

\* C6: when save_player_data(d) has succeeded, the file of the slot that
\* was loaded holds exactly d: the stats row of d and the items of d at
\* positions 0..n-1, and no other row.
C6_RoundTrip ==
    \A t \in Threads :
       Returned(t, "save_player_data") /\ Res(t).ok =>
          /\ loaded # None
          /\ FilePathOf(metadata_db.rows, loaded[1]) # None
          /\ slot_files[FilePathOf(metadata_db.rows, loaded[1])[1]]
                = Projection(call[t].arg[1])

\* C6 witness: a save of the three-item inventory has succeeded.
C6_Witness ==
    \E t \in Threads :
       /\ Returned(t, "save_player_data") /\ Res(t).ok
       /\ Len(call[t].arg[1].inventory) = 3

\* C7: once the catalog exists, no step of init_system changes the catalog
\* or any slot file.
C7_InitIdempotent ==
    [][ \A t \in Threads :
           (Initialize(t) \/ InitLock(t) \/ InitStore(t)) /\ metadata_db.table =>
              UNCHANGED <<metadata_db, slot_files>> ]_vars

\* C7 witness: init_system has succeeded on a catalog with a row and a slot
\* file with saved data.
C7_Witness ==
    \E t \in Threads :
       /\ Returned(t, "init_system") /\ Res(t).ok
       /\ metadata_db.rows # <<>>
       /\ \E p \in SlotPaths : saved[p] # None

\* The texts of every other error a public operation can return.
OtherMessages ==
    { LockPoisonedMessage }
       \cup { Display(e) : e \in { Io(IoFailure), Database(IoFailure),
                                   Database(UniqueConstraintFailed),
                                   Migration(IoFailure), NoActiveSlot } }
       \cup { Display(SlotNotFound(id)) : id \in Uuids }
       \cup { InitFailedMessage(e) : e \in { Io(IoFailure), Database(IoFailure) } }

\* C8: while no manager is installed, create_new_slot, get_all_slots,
\* load_slot and save_player_data fail with the "not initialized" text,
\* which no other error has, and change nothing.
C8_NotInitialized ==
    [][ \A t \in Threads :
           (WithSaveManager(t) \/ WithSaveManagerMut(t)) /\ manager = None =>
              /\ pc'[t] = "ret"
              /\ result'[t] = Some(Err(NotInitializedMessage))
              /\ NotInitializedMessage \notin OtherMessages
              /\ UNCHANGED <<saves_dir_exists, metadata_db, slot_files, manager,
                             created, saved, loaded>> ]_vars

\* C8 witness: an operation has failed with "not initialized".
C8_Witness ==
    \E t \in Threads :
       /\ pc[t] = "ret"
       /\ call[t].op \in {"create_new_slot", "get_all_slots", "load_slot",
                          "save_player_data"}
       /\ Res(t) = Err(NotInitializedMessage)
       /\ manager = None

\* C9: in every state, also inside save_player_data and after it failed or
\* the process was torn down, every slot file holds the data of the last
\* save committed to it, whole, or no data when none was committed.
C9_SaveAtomic ==
    \A p \in SlotPaths :
       IF saved[p] = None
       THEN slot_files[p].player_stats = None /\ slot_files[p].inventory = {}
       ELSE slot_files[p] = Projection(saved[p][1])

\* C9 witness: a save is under way, with an item already inserted, on a
\* file that holds an earlier save.
C9_Witness ==
    \E t \in Threads :
       /\ pc[t] = "save_insert"
       /\ loc[t].position >= 1
       /\ saved[manager[1].active_connection[1].path] # None
       /\ loc[t].transaction[1] # slot_files[manager[1].active_connection[1].path]

\* The slot connections that are open: the manager's active one and those
\* load_slot has opened and not yet installed or dropped.
OpenSlotConnections ==
    (IF manager # None /\ manager[1].active_connection # None THEN 1 ELSE 0)
       + Cardinality({ t \in Threads : loc[t].slot_connection # None })

\* C10: at most one slot connection is open, in every state.
C10_OneOpenConnection == OpenSlotConnections <= 1

\* C10 witness: load_slot holds the new slot's connection, opened after it
\* closed the one that was active.
C10_Witness ==
    \E t \in Threads :
       /\ pc[t] = "load_migrate"
       /\ loc[t].slot_connection # None
       /\ loc[t].had_active

\* C11 (as claimed): once a registry lock is poisoned, every operation that
\* then takes it returns an error value and changes nothing: on
\* SAVE_MANAGER the "lock poisoned" text, on APP_DOCUMENTS_DIR some error
\* value too, and none unwinds out of the call instead of returning.
C11_PoisonSurfaced ==
    [][ \A t \in Threads :
           /\ (poisoned /\ (InitLock(t) \/ WithSaveManager(t)
                                         \/ WithSaveManagerMut(t)))
                 => /\ pc'[t] = "ret"
                    /\ result'[t] = Some(Err(LockPoisonedMessage))
                    /\ UNCHANGED <<saves_dir_exists, metadata_db, slot_files,
                                   manager, lock>>
           /\ (app_documents_dir.poisoned
                  /\ (SetApplicationDocumentsDirectory(t)
                         \/ DebugApplicationDocumentsDirectory(t)))
                 => /\ pc'[t] = "ret"
                    /\ result'[t] # None
                    /\ ~result'[t][1].ok
                    /\ UNCHANGED app_documents_dir ]_vars

ExclusiveSteps ==
    {"load_close", "load_lookup", "load_open", "load_migrate", "load_update",
     "load_install", "save_begin", "save_upsert", "save_delete", "save_insert",
     "init_store"}

\* C13: a thread inside load_slot, inside save_player_data or at the
\* manager-replacing step of init_system holds SAVE_MANAGER's guard, and no
\* other thread is inside any of them, or inside any other closure, at the
\* same time.
C13_MutualExclusion ==
    \A t \in Threads :
       pc[t] \in ExclusiveSteps =>
          /\ lock = Some(t)
          /\ \A u \in Threads \ {t} : pc[u] \notin ExclusiveSteps \cup ClosureSteps

\* C13 witness: a thread is inside load_slot, the new slot's connection
\* open and not yet installed, while the other thread has built a new
\* manager and waits for the guard to replace the installed one.
C13_Witness ==
    \E t, u \in Threads :
       /\ pc[t] = "load_migrate"
       /\ pc[u] = "init_lock"

\* C14 (as claimed): get_all_slots calls share the registry: a thread that
\* has called get_all_slots while another thread is inside get_all_slots
\* can enter it too.
C14_ReadersShare ==
    \A t, u \in Threads :
       pc[t] = "all_slots" /\ pc[u] = "parked" =>
          ENABLED Acquire(u, [op |-> "get_all_slots", arg |-> None])

\* C14: get_all_slots calls exclude each other: at most one thread is
\* inside get_all_slots, it holds SAVE_MANAGER's guard, and a thread that
\* has called get_all_slots meanwhile stays parked until the guard is
\* released.
C14_ReadersExclude ==
    /\ Cardinality({ t \in Threads : pc[t] = "all_slots" }) <= 1
    /\ \A t, u \in Threads :
          pc[t] = "all_slots" /\ pc[u] = "parked" =>
             /\ lock = Some(t)
             /\ ~ENABLED Acquire(u, [op |-> "get_all_slots", arg |-> None])

\* C14 witness: a thread is inside get_all_slots and the other is parked in
\* SAVE_MANAGER.lock().
C14_Witness ==
    \E t, u \in Threads : pc[t] = "all_slots" /\ pc[u] = "parked"

\* The last_played of the catalog row of slot_id.
LastPlayedOf(rows, slot_id) ==
    rows[CHOOSE i \in 1..Len(rows) : rows[i].id = slot_id].last_played

\* C15: in load_slot(X), the steps up to the migration leave the catalog
\* unchanged and the manager with no active slot; the update of last_played
\* runs on a data file that exists and is migrated, is the only step that
\* changes the catalog, and still leaves no active slot; X is installed
\* only by the step that follows a successful update; and every load_slot
\* that returns an error leaves the manager with no active slot.
C15_LoadOrder ==
    [][ \A t \in Threads :
           /\ (LoadClose(t) \/ LoadLookup(t) \/ LoadOpen(t) \/ LoadMigrate(t))
                 => /\ UNCHANGED metadata_db
                    /\ manager'[1].active_connection = None
           /\ LoadUpdate(t)
                 => /\ slot_files[loc[t].slot_connection[1].path].exists
                    /\ slot_files[loc[t].slot_connection[1].path].user_version = 1
                    /\ FilePathOf(metadata_db.rows, call[t].arg[1])
                          = Some(loc[t].slot_connection[1].path)
                    /\ manager'[1].active_connection = None
                    /\ metadata_db' # metadata_db => pc'[t] = "load_install"
           /\ (pc'[t] = "load_install" /\ pc[t] # "load_install")
                 => /\ LoadUpdate(t)
                    /\ LastPlayedOf(metadata_db'.rows, call[t].arg[1]) = now
           /\ LoadInstall(t)
                 => /\ UNCHANGED <<metadata_db, slot_files>>
                    /\ manager'[1].active_connection = loc[t].slot_connection
                    /\ result'[t] = Some(Ok(<<>>))
           /\ (manager'  # None /\ manager # None
                  /\ manager'[1].active_connection # None
                  /\ manager'[1].active_connection # manager[1].active_connection)
                 => \E u \in Threads : LoadInstall(u)
           /\ (call[t].op = "load_slot" /\ pc[t] # "ret" /\ pc'[t] = "ret"
                  /\ ~result'[t][1].ok)
                 => /\ manager'[1].active_connection = None
                    /\ loaded' = None ]_vars

\* C15 witness: load_slot has failed at the migration, of a slot whose data
\* file it has just created, when another slot was active before the call.
C15_Witness ==
    \E t \in Threads :
       /\ Returned(t, "load_slot")
       /\ Res(t) = Err(Display(Migration(IoFailure)))
       /\ loc[t].had_active
       /\ slot_files[FilePathOf(metadata_db.rows, call[t].arg[1])[1]] = EmptyFile

\* C16: the manager-replacing step of init_system always succeeds and
\* leaves a fresh manager with no active slot, whatever manager was
\* installed; no slot connection is open after it (the connection the
\* previous manager held is closed); and, the manager having no loaded slot
\* since, save_player_data fails with the "no active slot" text.
C16_SecondInit ==
    [][ \A t \in Threads :
           /\ InitStore(t)
                 => /\ result'[t] = Some(Ok(<<>>))
                    /\ manager' = Some(NewSaveManager(BasePath))
                    /\ manager'[1].active_connection = None
                    /\ loaded' = None
                    /\ OpenSlotConnections' = 0
           /\ (SaveBegin(t) /\ loaded = None)
                 => result'[t] = Some(Err(<<"no save slot is currently loaded">>)) ]_vars

\* C16 witness: init_system has succeeded a second time, replacing a manager
\* that had a slot active.
C16_Witness ==
    \E t \in Threads :
       /\ Returned(t, "init_system") /\ Res(t).ok
       /\ loc[t].had_active

\* C17: create_slot changes nothing but the catalog, to which a successful
\* one appends the row it returns, and the data file of that row does not
\* exist then; a data file comes into existence only at the step of a
\* load_slot that opens it, which always creates it when that step
\* succeeds, and has the schema once the migration of that load_slot has
\* run.
C17_LazyDataFile ==
    [][ \A t \in Threads :
           /\ CreateSlot(t)
                 => /\ UNCHANGED <<saves_dir_exists, slot_files, manager, saved>>
                    /\ IF result'[t][1].ok
                       THEN /\ metadata_db'.rows =
                                  Append(metadata_db.rows, result'[t][1].val[1])
                            /\ ~slot_files'[result'[t][1].val[1].file_path].exists
                       ELSE UNCHANGED metadata_db
           /\ \A p \in SlotPaths :
                 (~slot_files[p].exists /\ slot_files'[p].exists)
                    => \E u \in Threads : LoadOpen(u) /\ loc[u].slot_path = Some(p)
           /\ (LoadOpen(t) /\ pc'[t] = "load_migrate")
                 => /\ slot_files'[loc[t].slot_path[1]].exists
                    /\ slot_files'[loc[t].slot_path[1]].user_version
                          = slot_files[loc[t].slot_path[1]].user_version
           /\ (LoadMigrate(t) /\ pc'[t] = "load_update")
                 => slot_files'[loc[t].slot_path[1]].user_version = 1 ]_vars

\* C17 witness: create_new_slot has returned a slot whose data file does not
\* exist, while the data file of a slot loaded earlier does.
C17_Witness ==
    \E t \in Threads :
       /\ Returned(t, "create_new_slot") /\ Res(t).ok
       /\ ~slot_files[Res(t).val[1].file_path].exists
       /\ \E p \in SlotPaths : slot_files[p].exists

\* C18: the installed manager, and with it the active slot, is changed only
\* by a step of load_slot (which closes the active connection, or installs
\* the one of the slot it loads), by the manager-replacing step of
\* init_system, or by the teardown of the process: no step of
\* create_new_slot, get_all_slots or save_player_data changes it; and when
\* load_slot(X) succeeds, the active connection is the one to X's data file.
C18_ActiveSlotFrame ==
    [][ /\ manager' # manager
             => \/ \E u \in Threads : LoadClose(u) \/ LoadInstall(u) \/ InitStore(u)
                \/ Restart
        /\ \A t \in Threads :
              /\ (CreateSlot(t) \/ AllSlots(t) \/ SaveBegin(t) \/ SaveUpsert(t)
                     \/ SaveDelete(t) \/ SaveInsert(t) \/ SaveCommit(t))
                    => UNCHANGED <<manager, loaded>>
              /\ (call[t].op = "load_slot" /\ pc[t] # "ret" /\ pc'[t] = "ret"
                     /\ result'[t][1].ok)
                    => /\ loaded' = call[t].arg
                       /\ manager'[1].active_connection =
                             Some(Connection(FilePathOf(metadata_db.rows,
                                                        call[t].arg[1])[1]))
        /\ (manager' # None /\ manager'[1].active_connection # None)
             => /\ loaded' # None
                /\ manager'[1].active_connection =
                      Some(Connection(FilePathOf(metadata_db'.rows, loaded'[1])[1])) ]_vars

\* C18 witness: create_new_slot has succeeded while a slot is active, a slot
\* it did not create just now.
C18_Witness ==
    \E t \in Threads :
       /\ Returned(t, "create_new_slot") /\ Res(t).ok
       /\ loaded # None
       /\ manager[1].active_connection # None
       /\ loaded[1] # Res(t).val[1].id

\* C19: an init_system that fails, at the creation of the saves directory
\* or at the initialization of the catalog, returns its error with the
\* registry as it was: the installed manager, its active slot and the lock
\* are unchanged by the failing step and by the return.
C19_FailedInitKeepsRegistry ==
    [][ \A t \in Threads :
           /\ (Initialize(t) /\ pc'[t] = "ret")
                 => /\ result'[t] \in
                          { Some(Err(<<"init_system failed: ", "I/O error: ", IoFailure>>)),
                            Some(Err(<<"init_system failed: ", "database error: ",
                                       IoFailure>>)) }
                    /\ UNCHANGED <<manager, lock, loaded, poisoned, slot_files>>
           /\ (Return(t) /\ call[t].op = "init_system" /\ ~result[t][1].ok)
                 => UNCHANGED <<manager, lock, loaded, poisoned, slot_files>> ]_vars

\* C19 witness: init_system has failed while a manager with an active slot
\* is installed.
C19_Witness ==
    \E t \in Threads :
       /\ Returned(t, "init_system") /\ ~Res(t).ok
       /\ manager # None
       /\ manager[1].active_connection # None
       /\ loaded # None

\* C20: no step of save_player_data changes the catalog or the data file
\* of a slot other than the active one, and the stored stats and inventory
\* of a slot change only at the commit of a save_player_data made while
\* that slot is the active one.
C20_SlotIsolation ==
    [][ /\ \A t \in Threads :
              (SaveBegin(t) \/ SaveUpsert(t) \/ SaveDelete(t) \/ SaveInsert(t)
                  \/ SaveCommit(t))
                 => /\ UNCHANGED metadata_db
                    /\ \A id \in Uuids :
                          loaded # Some(id) =>
                             slot_files'[SlotFilePath(manager[1].saves_dir, id)]
                                = slot_files[SlotFilePath(manager[1].saves_dir, id)]
        /\ \A id \in Uuids :
              LET path == SlotFilePath(SavesDir(BasePath), id)
              IN  (\/ slot_files'[path].player_stats # slot_files[path].player_stats
                   \/ slot_files'[path].inventory # slot_files[path].inventory)
                     => /\ loaded = Some(id)
                        /\ \E u \in Threads :
                              SaveCommit(u) /\ result'[u] = Some(Ok(<<>>)) ]_vars

\* C20 witness: a save has succeeded on the active slot while the data file
\* of another slot holds other data, saved earlier.
C20_Witness ==
    \E t \in Threads :
       /\ Returned(t, "save_player_data") /\ Res(t).ok
       /\ \E p \in SlotPaths :
             /\ p # manager[1].active_connection[1].path
             /\ saved[p] # None
             /\ saved[p] # call[t].arg

====
